---- MODULE Spec2Model ----
(***************************************************************************)
(* The asynchronous job subsystem of QA-Chatbot: the RQ task queue          *)
(* (app/mq/queue.py), the retry handler (app/mq/exceptions.py), the chunk   *)
(* counter / watcher of the ingestion pipeline                              *)
(* (app/services/document_service.py), the worker supervisor               *)
(* (launch_workers.py), the chat message endpoint                           *)
(* (app/api/endpoints/chat.py) and the connection registry of the          *)
(* WebSocket endpoint (app/routers/chat.py).                                *)
(***************************************************************************)
EXTENDS Integers, Sequences, FiniteSets, TLC

VARIABLES
    jobs,       \* Job records in Redis, a sequence: a job's id is its index
    queue,      \* queue name -> FIFO of the ids of the queued jobs
    scheduled,  \* queue name -> ids in the queue's ScheduledJobRegistry
    calls,      \* number of enqueue_task calls of the clients so far
    docs,       \* documents table: document_id -> [present, total_chunks]
    rows,       \* vector_store: document_id -> chunk index -> rows inserted
    counter,    \* Redis key chunk_count:<document_id> -> [exists, val, ttl]
    crashes,    \* number of worker crashes so far
    incrs,      \* history: document_id -> chunk index -> INCR commands issued
    deletes,    \* history: document_id -> DEL commands that removed the key
    manager,    \* the WorkerManager of launch_workers.py and its processes
    slots,      \* history: worker slot -> crashes, replacements, latency
    killed,     \* history: the in-flight jobs stop_workers killed
    reply,      \* what the last get_job_status call gave its caller
    requests,   \* history: the arguments each enqueue_task call was given
    call,       \* the last call of process_file or of a function without
                \* state (chunk_text, send_message): arguments and outcome
    timeouts,   \* history: the jobs the harness ended at their timeout
    sockets     \* routers/chat.py: the WebSocket connections and
                \* active_connections

vars == <<jobs, queue, scheduled, calls, docs, rows, counter, crashes,
          incrs, deletes, manager, slots, killed, reply, requests, call,
          timeouts, sockets>>

jobVars == <<jobs, queue, scheduled, calls>>
docVars == <<docs, rows, counter, crashes, incrs, deletes>>
supVars == <<manager, slots, killed>>
auxVars == <<timeouts, sockets>>
apiVars == <<reply, requests, call, timeouts, sockets>>

----------------------------------------------------------------------------
(* Bounds of the model *)

MaxCalls == 1
MaxJobs == 5
MaxChunks == 2
MaxCrashes == 1
MaxMetaRetry == 4

----------------------------------------------------------------------------
(* app/config.py *)

REDIS_QUEUE == {"qa-chatbot"}
REDIS_MAX_WORKERS == 8
REDIS_MAX_RETRY == 3
REDIS_RETRY_INTERVALS == <<10, 20, 30>>
REDIS_TIMEOUT == 30

----------------------------------------------------------------------------
(* Values *)

None == [type |-> "NoneType", val |-> 0]
PyInt(n) == [type |-> "int", val |-> n]
PyFloat(n) == [type |-> "float", val |-> n]
PyStr(x) == [type |-> "str", val |-> x]

QueueNames == {"qa-chatbot", "other"}
Docs == {"d1"}
NoJob == 0

Min(a, b) == IF a <= b THEN a ELSE b

(* The exception classes: app/mq/exceptions.py defines its own BaseException
   (it shadows the builtin inside that module) and three subclasses;
   app/core/exceptions.py defines AppException and classes of the same three
   names. *)
ExcBase ==
    [mq_DocumentProcessingError   |-> "mq_BaseException",
     mq_VectorizationError        |-> "mq_BaseException",
     mq_DatabaseError             |-> "mq_BaseException",
     mq_BaseException             |-> "Exception",
     core_DocumentProcessingError |-> "AppException",
     core_VectorizationError      |-> "AppException",
     core_DatabaseError           |-> "AppException",
     AppException                 |-> "Exception",
     ValueError                   |-> "Exception",
     JobTimeoutException          |-> "Exception",
     Exception                    |-> "builtins_BaseException",
     builtins_BaseException       |-> "object"]

RECURSIVE issubclass(_, _)
issubclass(cls, base) ==
    IF cls = base THEN TRUE
    ELSE IF cls \notin DOMAIN ExcBase THEN FALSE
    ELSE issubclass(ExcBase[cls], base)

(* What a job's callable may raise. *)
ExcTypes ==
    {"mq_DocumentProcessingError", "mq_VectorizationError", "mq_DatabaseError",
     "core_DocumentProcessingError", "core_VectorizationError",
     "core_DatabaseError", "ValueError"}

(* getattr(obj, name, default) on a dict: a dict's keys are not attributes, so
   only the dict type's own attributes are found and a key yields the default. *)
DictAttributes == {"get", "items", "keys", "values", "pop", "update"}

getattr(obj, name, default) ==
    IF name \in DictAttributes THEN "builtin_method" ELSE default

----------------------------------------------------------------------------
(* app/mq/queue.py *)

(* enqueue_task, lines 33-39: the timeout stored on the job. *)
effective_timeout(task_timeout) ==
    LET t == IF task_timeout.type # "int" \/ task_timeout.val = 0
             THEN REDIS_TIMEOUT
             ELSE task_timeout.val
    IN Min(t, 1800)

(* The Job record of an enqueue_task that wrote its defaults into meta,
   not its arguments. *)
NewJobDefaultMeta(func, args, queue_name, task_timeout, allow_retry, kwargs) ==
    [func |-> func, args |-> args, kwargs |-> kwargs,
     timeout |-> effective_timeout(task_timeout),
     meta |-> [retry_count |-> 0, queue_name |-> "qa-chatbot",
               allow_retry |-> TRUE],
     origin |-> queue_name, status |-> "queued", pc |-> "none",
     exc_info |-> "", handler_ret |-> "", retry_of |-> NoJob, delay |-> 0]

(* The Job record enqueue_task creates (lines 41-50). *)
NewJob(func, args, queue_name, task_timeout, allow_retry, kwargs) ==
    [func |-> func, args |-> args, kwargs |-> kwargs,
     timeout |-> effective_timeout(task_timeout),
     meta |-> [retry_count |-> 0, queue_name |-> queue_name,
               allow_retry |-> allow_retry],
     origin |-> queue_name, status |-> "queued", pc |-> "none",
     exc_info |-> "", handler_ret |-> "", retry_of |-> NoJob, delay |-> 0]

EnqueueTask(func, args, queue_name, task_timeout, allow_retry, kwargs) ==
    /\ calls < MaxCalls
    /\ Len(jobs) < MaxJobs
    /\ jobs' = Append(jobs, NewJob(func, args, queue_name, task_timeout,
                                   allow_retry, kwargs))
    /\ queue' = [queue EXCEPT ![queue_name] = Append(@, Len(jobs) + 1)]
    /\ calls' = calls + 1
    /\ requests' = requests \cup {[job |-> Len(jobs) + 1,
                                    task_timeout |-> task_timeout,
                                    queue_name |-> queue_name,
                                    allow_retry |-> allow_retry]}
    /\ UNCHANGED <<scheduled, docVars, supVars, reply, call, auxVars>>

----------------------------------------------------------------------------
(* app/mq/exceptions.py *)

IsRetryableBuiltinBase(exc_type) == issubclass(exc_type, "builtins_BaseException")

(* line 64: issubclass(exc_type, BaseException), the module's own class. *)
IsRetryable(exc_type) == issubclass(exc_type, "mq_BaseException")

(* lines 67-74 *)
retry_delay(retry_count) ==
    IF retry_count < Len(REDIS_RETRY_INTERVALS)
    THEN REDIS_RETRY_INTERVALS[retry_count + 1]
    ELSE LET base_interval ==
                 IF Len(REDIS_RETRY_INTERVALS) > 0
                 THEN REDIS_RETRY_INTERVALS[Len(REDIS_RETRY_INTERVALS)]
                 ELSE 10
         IN Min(base_interval * (2 ^ retry_count), 300)

(* generic_exception_handler(job, exc_type, exc_value, traceback): its return
   value and, when it re-enqueues, the job it hands to queue.enqueue_in. *)
generic_exception_handler(job, exc_type) ==
    LET retry_count == getattr(job.meta, "retry_count", 0)
        max_retries == REDIS_MAX_RETRY
        queue_name  == getattr(job.meta, "queue_name", "qa-chatbot")
        allow_retry == getattr(job.meta, "allow_retry", TRUE)
        none == [ret |-> "None", enqueue |-> FALSE, queue_name |-> "",
                 job |-> job]
    IN IF ~IsRetryable(exc_type) THEN none
       ELSE IF retry_count < max_retries
       THEN [ret |-> "True", enqueue |-> TRUE, queue_name |-> queue_name,
             job |-> [func |-> job.func, args |-> job.args,
                      kwargs |-> job.kwargs, timeout |-> job.timeout,
                      meta |-> [retry_count |-> retry_count + 1,
                                queue_name |-> queue_name,
                                allow_retry |-> allow_retry],
                      origin |-> queue_name, status |-> "scheduled",
                      pc |-> "none", exc_info |-> "", handler_ret |-> "",
                      retry_of |-> NoJob, delay |-> retry_delay(retry_count)]]
       ELSE [none EXCEPT !.ret = "False"]

----------------------------------------------------------------------------
(* The execution harness (the RQ worker started by launch_workers.py) *)

Started == {j \in 1..Len(jobs) : jobs[j].status = "started"}

FirstPc(func) ==
    CASE func = "process_chunk" -> "summarize"
      [] func = "check_document_completion" -> "poll"
      [] OTHER -> "run"

(* A worker listening on REDIS_QUEUE pops the head of a queue. *)
Dequeue(q) ==
    /\ q \in REDIS_QUEUE
    /\ queue[q] # <<>>
    /\ Cardinality(Started) < REDIS_MAX_WORKERS
    /\ LET j == Head(queue[q])
       IN jobs' = [jobs EXCEPT ![j].status = "started",
                               ![j].pc = FirstPc(jobs[j].func)]
    /\ queue' = [queue EXCEPT ![q] = Tail(@)]
    /\ UNCHANGED <<scheduled, calls, docVars, supVars, apiVars>>

(* The scheduler moves a job whose delay has passed to its queue. *)
ScheduleDue(j) ==
    /\ j \in 1..Len(jobs)
    /\ jobs[j].status = "scheduled"
    /\ j \in scheduled[jobs[j].origin]
    /\ jobs' = [jobs EXCEPT ![j].status = "queued"]
    /\ scheduled' = [scheduled EXCEPT ![jobs[j].origin] = @ \ {j}]
    /\ queue' = [queue EXCEPT ![jobs[j].origin] = Append(@, j)]
    /\ UNCHANGED <<calls, docVars, supVars, apiVars>>

(* The callable of job j raised exc_type: the job is marked failed and the
   exception handler chain, [generic_exception_handler], runs. *)
Fail(j, exc_type) ==
    LET h == generic_exception_handler(jobs[j], exc_type)
        failed == [jobs EXCEPT ![j].status = "failed", ![j].pc = "none",
                               ![j].exc_info = exc_type,
                               ![j].handler_ret = h.ret]
    IN /\ Len(jobs) < MaxJobs
       /\ IF h.enqueue
          THEN /\ jobs' = Append(failed, [h.job EXCEPT !.retry_of = j])
               /\ scheduled' = [scheduled EXCEPT ![h.queue_name] =
                                    @ \cup {Len(jobs) + 1}]
          ELSE /\ jobs' = failed
               /\ UNCHANGED scheduled
       /\ UNCHANGED <<queue, calls>>

JobReturns(j) ==
    /\ j \in Started
    /\ jobs[j].pc = "run"
    /\ jobs' = [jobs EXCEPT ![j].status = "finished", ![j].pc = "none"]
    /\ UNCHANGED <<queue, scheduled, calls, docVars, supVars, apiVars>>

JobRaises(j, exc_type) ==
    /\ j \in Started
    /\ jobs[j].pc = "run"
    /\ Fail(j, exc_type)
    /\ UNCHANGED <<docVars, supVars, apiVars>>

----------------------------------------------------------------------------
(* app/mq/queue.py: get_job_status *)

JobIdInputs == 1..(MaxJobs + 1)

NoReply == [job_id |-> NoJob, outcome |-> "none", status |-> "",
            result |-> "", error |-> ""]

(* Job.fetch raises NoSuchJobError for an id Redis holds no job under. *)
Known(job_id) == job_id \in 1..Len(jobs)

(* What the callable of a finished job returned. *)
ResultOf(job) == "result"

(* lines 56-77: the dict the function returns. It has no raise of its own
   and catches every Exception of its body, so it always returns. *)
get_job_status(job_id) ==
    IF ~Known(job_id)
    THEN [job_id |-> job_id, outcome |-> "returned", status |-> "failed",
          result |-> "", error |-> "No such job"]
    ELSE IF jobs[job_id].status = "finished"
    THEN [job_id |-> job_id, outcome |-> "returned", status |-> "completed",
          result |-> ResultOf(jobs[job_id]), error |-> ""]
    ELSE IF jobs[job_id].status = "failed"
    THEN [job_id |-> job_id, outcome |-> "returned", status |-> "failed",
          result |-> "", error |-> jobs[job_id].exc_info]
    ELSE [job_id |-> job_id, outcome |-> "returned", status |-> "running",
          result |-> "None", error |-> ""]

(* get_job_status if the fetch consumed the record of a finished job. *)
GetJobStatusDeletes(job_id) ==
    /\ reply' = get_job_status(job_id)
    /\ jobs' = IF Known(job_id) /\ jobs[job_id].status = "finished"
                THEN [jobs EXCEPT ![job_id].status = "deleted"]
                ELSE jobs
    /\ UNCHANGED <<queue, scheduled, calls, docVars, supVars, requests, call,
                   auxVars>>

GetJobStatus(job_id) ==
    /\ reply' = get_job_status(job_id)
    /\ UNCHANGED <<jobVars, docVars, supVars, requests, call, auxVars>>

----------------------------------------------------------------------------
(* launch_workers.py: the WorkerManager (the worker supervisor) *)

MaxSlotCrashes == 11
MaxPoolCrashes == 3

max_restart_attempts == 5
base_restart_delay == 5
JoinTimeout == 5
SleepInterval == 1

(* The worker counts the launcher is started with (--workers); the crash
   loop of a slot is followed on a launcher of one worker, the pool on a
   launcher of three. *)
WorkerCounts == {1, 2}
CrashLoopCounts == {1}
PoolCounts == {3}
Slots == {1, 2, 3}

(* id(worker): the address of a Process object. Two objects that exist at
   the same time have different ids; an object that was freed may give its
   id to a later one. *)
Addresses == {1, 2, 3}
NoId == 0

Max(a, b) == IF a >= b THEN a ELSE b

(* The timeout of the jobs the workers run: the pipeline enqueues its jobs
   without a timeout (document_service.py lines 387-398). *)
JobTimeout == effective_timeout(None)

(* A Process object of self.workers. slot, k and since are history: the slot
   the process was started for, the number of crashes of the slot before its
   own and the seconds since it died. busy, ran and term describe the worker
   inside: it runs a job, for ran seconds, and it has received SIGTERM.
   worker_id is the argument of start_worker_process (lines 41-44), which
   the worker is constructed with. *)
NewProcess(id, slot, worker_id) ==
    [id |-> id, alive |-> TRUE, slot |-> slot, k |-> 0, since |-> 0,
     busy |-> FALSE, ran |-> 0, term |-> FALSE, worker_id |-> worker_id]

(* An absent key of worker_restart_delays. A present one holds the time that
   remains until restart_time (time.time() >= restart_time is
   remaining <= 0) and, as history, the slot, the crash number and the
   seconds since the crash. *)
NoDelay == [pending |-> FALSE, remaining |-> 0, slot |-> 0, k |-> 0,
            since |-> 0]

NoLatency == [started |-> FALSE, seconds |-> 0]

(* WorkerManager.__init__, lines 20-30. worker and new_worker are the local
   variables of run, children the Process objects multiprocessing still
   holds (it forgets a dead one at its is_alive() and at the next start()),
   unlisted the processes that were started and are not in self.workers. *)
InitManager ==
    /\ manager = [pc |-> "init", running |-> TRUE, workers |-> <<>>,
                  worker_restart_counts |-> [a \in Addresses |-> 0],
                  worker_restart_delays |-> [a \in Addresses |-> NoDelay],
                  worker |-> NoId, new_worker |-> NoId, children |-> {},
                  stop_i |-> 0, joined |-> 0,
                  in_finally |-> FALSE, worker_count |-> 0,
                  unlisted |-> {}]
    /\ slots = [s \in Slots |-> [crashes |-> 0, starts |-> 0, retired |-> 0,
                                 latency |-> NoLatency]]
    /\ killed = {}

----------------------------------------------------------------------------
(* Specification of the queue and the retry handler: clients enqueue tasks,
   workers run them, a task returns or raises. *)

NoCounter == [exists |-> FALSE, val |-> 0, ttl |-> FALSE]

InitDocs ==
    /\ docs = [d \in Docs |-> [present |-> FALSE, total_chunks |-> 0]]
    /\ rows = [d \in Docs |-> [i \in 0..(MaxChunks - 1) |-> 0]]
    /\ counter = [d \in Docs |-> NoCounter]
    /\ crashes = 0
    /\ incrs = [d \in Docs |-> [i \in 0..(MaxChunks - 1) |-> 0]]
    /\ deletes = [d \in Docs |-> 0]

(* No call of process_file, chunk_text or send_message was made yet. *)
NoCall == [fn |-> "none"]

(* app/routers/chat.py: the users, the WebSocket objects of the connection
   attempts and the module's state before the first attempt (lines 32-36):
   no coroutine of chat runs and active_connections is empty. *)
Users == {"u1", "u2"}
Sockets == {1, 2, 3}
NoSockets ==
    [conn |-> [w \in Sockets |-> [pc |-> "none", user_id |-> ""]],
     active_connections |-> [u \in Users |-> {}]]

Init ==
    /\ jobs = <<>>
    /\ queue = [q \in QueueNames |-> <<>>]
    /\ scheduled = [q \in QueueNames |-> {}]
    /\ calls = 0
    /\ InitDocs
    /\ InitManager
    /\ reply = NoReply
    /\ requests = {}
    /\ timeouts = {}
    /\ sockets = NoSockets
    /\ call = NoCall

TimeoutInputs == {PyInt(60)}

Next ==
    \/ \E q \in QueueNames, t \in TimeoutInputs, a \in BOOLEAN :
           EnqueueTask("task", <<"a">>, q, t, a, [k |-> "v"])
    \/ \E q \in QueueNames : Dequeue(q)
    \/ \E j \in 1..Len(jobs) : ScheduleDue(j)
    \/ \E j \in 1..Len(jobs) : JobReturns(j)
    \/ \E j \in 1..Len(jobs), e \in ExcTypes : JobRaises(j, e)

Spec == Init /\ [][Next]_vars

(* enqueue_task on every kind of task_timeout: None, integers below, at and
   above zero, the default and the cap, floats and strings. PyFloat(n) is
   the float n.0. *)
TimeoutValues ==
    {None, PyInt(-5), PyInt(-1), PyInt(0), PyInt(1), PyInt(29), PyInt(30),
     PyInt(60), PyInt(1799), PyInt(1800), PyInt(1801), PyInt(3600),
     PyFloat(0), PyFloat(60), PyStr("60"), PyStr("")}

NextEnqueue ==
    \/ \E q \in QueueNames, t \in TimeoutValues, a \in BOOLEAN :
           EnqueueTask("task", <<"a">>, q, t, a, [k |-> "v"])
    \/ \E q \in QueueNames : Dequeue(q)
    \/ \E j \in 1..Len(jobs) : JobReturns(j)

SpecEnqueue == Init /\ [][NextEnqueue]_vars

(* The queue of Spec with clients that ask for the status of a job id. *)
NextStatus ==
    \/ Next
    \/ \E job_id \in JobIdInputs : GetJobStatus(job_id)

SpecStatus == Init /\ [][NextStatus]_vars

(* The retry handler as a function of the Job the worker hands it: the job
   record is data read from Redis, so its meta is an input, drawn here from
   every retry_count up to MaxMetaRetry and either allow_retry, for a job of
   a queue the workers listen on. *)
InitHandler ==
    /\ \E r \in 0..MaxMetaRetry, q \in REDIS_QUEUE, a \in BOOLEAN :
           jobs = << [NewJob("task", <<"a">>, q, PyInt(60), a, [k |-> "v"])
                         EXCEPT !.meta.retry_count = r,
                                !.status = "started", !.pc = "run"] >>
    /\ queue = [q \in QueueNames |-> <<>>]
    /\ scheduled = [q \in QueueNames |-> {}]
    /\ calls = 0
    /\ InitDocs
    /\ InitManager
    /\ reply = NoReply
    /\ requests = {}
    /\ timeouts = {}
    /\ sockets = NoSockets
    /\ call = NoCall

NextHandler ==
    \/ \E q \in QueueNames : Dequeue(q)
    \/ \E j \in 1..Len(jobs) : ScheduleDue(j)
    \/ \E j \in 1..Len(jobs) : JobReturns(j)
    \/ \E j \in 1..Len(jobs), e \in ExcTypes : JobRaises(j, e)

SpecHandler == InitHandler /\ [][NextHandler]_vars

----------------------------------------------------------------------------
(* app/services/document_service.py: the ingestion pipeline *)

ChunkCounts == 0..MaxChunks

(* config.py, lines 161-162. *)
MAX_FILE_SIZE_MB == 100
MAX_FILE_SIZE_BYTES == MAX_FILE_SIZE_MB * 1024 * 1024

(* The data of an upload: its content type, its size in bytes and whether
   extract_text can read it. *)
ContentTypes == {"application/pdf", "text/plain"}
FileSizes == {0, MAX_FILE_SIZE_BYTES, MAX_FILE_SIZE_BYTES + 1}

(* process_file, lines 357-366 and 402-405: the exception the call ends
   with before it has inserted or enqueued anything, "" if there is none.
   extract_text raises DocumentProcessingError (lines 54-64), which the
   handler of line 404 wraps again. *)
process_file_error(content_type, file_size, extractable) ==
    IF content_type # "application/pdf" THEN "ValueError"
    ELSE IF file_size > MAX_FILE_SIZE_BYTES THEN "ValueError"
    ELSE IF ~extractable THEN "core_DocumentProcessingError"
    ELSE ""

(* process_file if the documents row were written before the checks. *)
ProcessFileRejectsLate(content_type, file_size, extractable) ==
    /\ process_file_error(content_type, file_size, extractable) # ""
    /\ call' = [fn |-> "process_file", content_type |-> content_type,
                file_size |-> file_size, extractable |-> extractable,
                raised |-> process_file_error(content_type, file_size,
                                              extractable)]
    /\ \E d \in Docs :
          /\ ~docs[d].present
          /\ docs' = [docs EXCEPT ![d] = [present |-> TRUE,
                                          total_chunks |-> 0]]
    /\ UNCHANGED <<jobVars, rows, counter, crashes, incrs, deletes, supVars,
                   reply, requests, auxVars>>

(* process_file on data it rejects or cannot read: it raises and has
   written nothing. *)
ProcessFileRejects(content_type, file_size, extractable) ==
    /\ process_file_error(content_type, file_size, extractable) # ""
    /\ call' = [fn |-> "process_file", content_type |-> content_type,
                file_size |-> file_size, extractable |-> extractable,
                raised |-> process_file_error(content_type, file_size,
                                              extractable)]
    /\ UNCHANGED <<jobVars, docVars, supVars, reply, requests, auxVars>>

(* process_file that enqueues the watcher before the chunk jobs. *)
ProcessFileWatcherFirst(d, n) ==
    /\ ~docs[d].present
    /\ Len(jobs) + n + 1 <= MaxJobs
    /\ docs' = [docs EXCEPT ![d] = [present |-> TRUE, total_chunks |-> n]]
    /\ jobs' = jobs \o
          [k \in 1..(n + 1) |->
              IF k > 1
              THEN NewJob("process_chunk", <<"chunk", d, k - 2>>,
                          "qa-chatbot", None, TRUE, <<>>)
              ELSE NewJob("check_document_completion", <<d, n>>,
                          "qa-chatbot", None, TRUE, <<>>)]
    /\ queue' = [queue EXCEPT !["qa-chatbot"] =
                     @ \o [k \in 1..(n + 1) |-> Len(jobs) + k]]
    /\ calls' = calls + n + 1
    /\ requests' = requests \cup {[job |-> Len(jobs) + k,
                                    task_timeout |-> None,
                                    queue_name |-> "qa-chatbot",
                                    allow_retry |-> TRUE] : k \in 1..(n + 1)}
    /\ call' = [fn |-> "process_file", content_type |-> "application/pdf",
                extractable |-> TRUE, raised |-> "", ret |-> d,
                chunks |-> n]
    /\ UNCHANGED <<scheduled, rows, counter, crashes, incrs, deletes,
                   supVars, reply, auxVars>>

(* process_file, lines 365-401, on data that passes the checks and whose
   text chunk_text split into n chunks: the document row, one process_chunk
   job per chunk, then the check_document_completion job, each through
   enqueue_task with the default timeout on "qa-chatbot"; it returns the
   document id. *)
ProcessFile(d, n) ==
    /\ ~docs[d].present
    /\ Len(jobs) + n + 1 <= MaxJobs
    /\ docs' = [docs EXCEPT ![d] = [present |-> TRUE, total_chunks |-> n]]
    /\ jobs' = jobs \o
          [k \in 1..(n + 1) |->
              IF k <= n
              THEN NewJob("process_chunk", <<"chunk", d, k - 1>>,
                          "qa-chatbot", None, TRUE, <<>>)
              ELSE NewJob("check_document_completion", <<d, n>>,
                          "qa-chatbot", None, TRUE, <<>>)]
    /\ queue' = [queue EXCEPT !["qa-chatbot"] =
                     @ \o [k \in 1..(n + 1) |-> Len(jobs) + k]]
    /\ calls' = calls + n + 1
    /\ requests' = requests \cup {[job |-> Len(jobs) + k,
                                    task_timeout |-> None,
                                    queue_name |-> "qa-chatbot",
                                    allow_retry |-> TRUE] : k \in 1..(n + 1)}
    /\ call' = [fn |-> "process_file", content_type |-> "application/pdf",
                extractable |-> TRUE, raised |-> "", ret |-> d,
                chunks |-> n]
    /\ UNCHANGED <<scheduled, rows, counter, crashes, incrs, deletes,
                   supVars, reply, auxVars>>

Running(j, func, pcs) ==
    /\ j \in Started
    /\ jobs[j].func = func
    /\ jobs[j].pc \in pcs

Goto(j, pc) == [jobs EXCEPT ![j].pc = pc]

(* A process_chunk that goes from the embedding to the INCR and leaves the
   insert out. *)
ChunkSummarizeSkipsInsert(j) ==
    /\ Running(j, "process_chunk", {"summarize"})
    /\ jobs' = Goto(j, "incr")
    /\ UNCHANGED <<queue, scheduled, calls, docVars, supVars, apiVars>>

(* process_chunk, lines 134-135: summarize_text, get_embedding. *)
ChunkSummarize(j) ==
    /\ Running(j, "process_chunk", {"summarize"})
    /\ jobs' = Goto(j, "insert")
    /\ UNCHANGED <<queue, scheduled, calls, docVars, supVars, apiVars>>

(* lines 137-144: the insert into vector_store. *)
ChunkInsert(j) ==
    /\ Running(j, "process_chunk", {"insert"})
    /\ rows' = [rows EXCEPT ![jobs[j].args[2]][jobs[j].args[3]] = @ + 1]
    /\ jobs' = Goto(j, "incr")
    /\ UNCHANGED <<queue, scheduled, calls, docs, counter, crashes, incrs,
                   deletes, supVars, apiVars>>

(* line 147: INCR chunk_count:<document_id>; a missing key counts from 0 and
   is created without an expiry. *)
ChunkIncr(j) ==
    /\ Running(j, "process_chunk", {"incr"})
    /\ counter' = [counter EXCEPT ![jobs[j].args[2]] =
                       [exists |-> TRUE, val |-> @.val + 1, ttl |-> @.ttl]]
    /\ incrs' = [incrs EXCEPT ![jobs[j].args[2]][jobs[j].args[3]] = @ + 1]
    /\ jobs' = Goto(j, "expire")
    /\ UNCHANGED <<queue, scheduled, calls, docs, rows, crashes, deletes,
                   supVars, apiVars>>

(* line 148: EXPIRE chunk_count:<document_id> 3600; no effect on a missing
   key. *)
ChunkExpire(j) ==
    /\ Running(j, "process_chunk", {"expire"})
    /\ counter' = [counter EXCEPT ![jobs[j].args[2]] =
                       IF @.exists THEN [@ EXCEPT !.ttl = TRUE] ELSE @]
    /\ jobs' = Goto(j, "return")
    /\ UNCHANGED <<queue, scheduled, calls, docs, rows, crashes, incrs,
                   deletes, supVars, apiVars>>

(* lines 150-151 *)
ChunkReturn(j) ==
    /\ Running(j, "process_chunk", {"return"})
    /\ jobs' = [jobs EXCEPT ![j].status = "finished", ![j].pc = "none"]
    /\ UNCHANGED <<queue, scheduled, calls, docVars, supVars, apiVars>>

(* lines 152-155: an APIError (of the insert) becomes the DatabaseError, any
   other exception, at any point of the body, the VectorizationError that
   document_service imports from app.core.exceptions. *)
ChunkExceptions(pc) ==
    IF pc = "insert"
    THEN {"core_DatabaseError", "core_VectorizationError"}
    ELSE {"core_VectorizationError"}

ChunkRaises(j, exc_type) ==
    /\ Running(j, "process_chunk",
               {"summarize", "insert", "incr", "expire", "return"})
    /\ exc_type \in ChunkExceptions(jobs[j].pc)
    /\ Fail(j, exc_type)
    /\ UNCHANGED <<docVars, supVars, apiVars>>

(* check_document_completion, lines 165-167: GET and the test
   processed_count and int(processed_count) >= total_chunks. *)
WatcherPoll(j) ==
    /\ Running(j, "check_document_completion", {"poll"})
    /\ LET c == counter[jobs[j].args[1]]
       IN jobs' = Goto(j, IF c.exists /\ c.val >= jobs[j].args[2]
                          THEN "delete" ELSE "sleep")
    /\ UNCHANGED <<queue, scheduled, calls, docVars, supVars, apiVars>>

(* line 168 *)
WatcherSleep(j) ==
    /\ Running(j, "check_document_completion", {"sleep"})
    /\ jobs' = Goto(j, "poll")
    /\ UNCHANGED <<queue, scheduled, calls, docVars, supVars, apiVars>>

(* lines 170-173: DEL chunk_count:<document_id> and the log line. *)
WatcherDelete(j) ==
    /\ Running(j, "check_document_completion", {"delete"})
    /\ counter' = [counter EXCEPT ![jobs[j].args[1]] = NoCounter]
    /\ deletes' = [deletes EXCEPT ![jobs[j].args[1]] =
                       IF counter[jobs[j].args[1]].exists THEN @ + 1 ELSE @]
    /\ jobs' = Goto(j, "return")
    /\ UNCHANGED <<queue, scheduled, calls, docs, rows, crashes, incrs,
                   supVars, apiVars>>

(* line 174 *)
WatcherReturn(j) ==
    /\ Running(j, "check_document_completion", {"return"})
    /\ jobs' = [jobs EXCEPT ![j].status = "finished", ![j].pc = "none"]
    /\ UNCHANGED <<queue, scheduled, calls, docVars, supVars, apiVars>>

(* lines 175-176: any exception of the body (a Redis error, the job
   timeout) becomes app.core.exceptions.DocumentProcessingError. *)
WatcherRaises(j) ==
    /\ Running(j, "check_document_completion",
               {"poll", "sleep", "delete", "return"})
    /\ Fail(j, "core_DocumentProcessingError")
    /\ UNCHANGED <<docVars, supVars, apiVars>>

(* Redis removes a key whose expiry has passed. *)
TTLExpire(d) ==
    /\ counter[d].exists
    /\ counter[d].ttl
    /\ counter' = [counter EXCEPT ![d] = NoCounter]
    /\ UNCHANGED <<jobVars, docs, rows, crashes, incrs, deletes,
                   supVars, apiVars>>

WorkerCrashLosesJob(j) ==
    /\ j \in Started
    /\ crashes < MaxCrashes
    /\ crashes' = crashes + 1
    /\ jobs' = [jobs EXCEPT ![j].status = "queued", ![j].pc = "none"]
    /\ UNCHANGED <<queue, scheduled, calls, docs, rows, counter, incrs,
                   deletes, supVars, apiVars>>

(* A worker process dies while it runs job j; the job is delivered again
   (at-least-once delivery): it goes back to its queue. *)
WorkerCrash(j) ==
    /\ j \in Started
    /\ crashes < MaxCrashes
    /\ crashes' = crashes + 1
    /\ jobs' = [jobs EXCEPT ![j].status = "queued", ![j].pc = "none"]
    /\ queue' = [queue EXCEPT ![jobs[j].origin] = Append(@, j)]
    /\ UNCHANGED <<scheduled, calls, docs, rows, counter, incrs, deletes,
                   supVars, apiVars>>

(* Specification of the ingestion pipeline as the code under src/ runs it:
   one upload, the worker pool running its chunk jobs and its watcher, job
   failures, key expiry. No job of the pipeline is ever in a scheduled
   registry (the handler re-enqueues none of them), so the scheduler has
   nothing to move. *)
NextPipeline ==
    \/ \E d \in Docs, n \in ChunkCounts : ProcessFile(d, n)
    \/ \E q \in QueueNames : Dequeue(q)
    \/ \E j \in 1..Len(jobs) : ChunkSummarize(j)
    \/ \E j \in 1..Len(jobs) : ChunkInsert(j)
    \/ \E j \in 1..Len(jobs) : ChunkIncr(j)
    \/ \E j \in 1..Len(jobs) : ChunkExpire(j)
    \/ \E j \in 1..Len(jobs) : ChunkReturn(j)
    \/ \E j \in 1..Len(jobs), e \in ExcTypes : ChunkRaises(j, e)
    \/ \E j \in 1..Len(jobs) : WatcherPoll(j)
    \/ \E j \in 1..Len(jobs) : WatcherSleep(j)
    \/ \E j \in 1..Len(jobs) : WatcherDelete(j)
    \/ \E j \in 1..Len(jobs) : WatcherReturn(j)
    \/ \E j \in 1..Len(jobs) : WatcherRaises(j)
    \/ \E d \in Docs : TTLExpire(d)

SpecPipeline == Init /\ [][NextPipeline]_vars

(* The execution harness ends job j at its timeout: JobTimeoutException is
   raised inside the running callable. process_chunk (lines 154-155) and
   check_document_completion (lines 175-176) catch it as an Exception and
   raise their own error from it; the callable of another task lets it
   through to the handler. *)
JobTimesOut(j) ==
    /\ j \in Started
    /\ Fail(j, IF jobs[j].func = "process_chunk"
               THEN "core_VectorizationError"
               ELSE IF jobs[j].func = "check_document_completion"
               THEN "core_DocumentProcessingError"
               ELSE "JobTimeoutException")
    /\ timeouts' = timeouts \cup {j}
    /\ UNCHANGED <<docVars, supVars, reply, requests, call, sockets>>

(* The pipeline and a task of a client, with jobs that run into their
   timeout. *)
NextTimeout ==
    \/ NextPipeline
    \/ \E t \in TimeoutInputs :
           EnqueueTask("task", <<"a">>, "qa-chatbot", t, TRUE, [k |-> "v"])
    \/ \E j \in 1..Len(jobs) : JobReturns(j)
    \/ \E j \in 1..Len(jobs) : JobTimesOut(j)

SpecTimeout == Init /\ [][NextTimeout]_vars

(* The pipeline with uploads that process_file rejects. *)
NextUpload ==
    \/ NextPipeline
    \/ \E content_type \in ContentTypes, file_size \in FileSizes,
          extractable \in BOOLEAN :
           ProcessFileRejects(content_type, file_size, extractable)

SpecUpload == Init /\ [][NextUpload]_vars

(* The same under fair scheduling of the worker pool: a queued job is
   eventually taken by a worker and a running job eventually takes its next
   step. Failures, uploads and key expiry are not forced. *)
FairSpecPipeline ==
    /\ Init
    /\ [][NextPipeline]_vars
    /\ WF_vars(\E q \in QueueNames : Dequeue(q))
    /\ \A j \in 1..MaxJobs :
          /\ WF_vars(ChunkSummarize(j))
          /\ WF_vars(ChunkInsert(j))
          /\ WF_vars(ChunkIncr(j))
          /\ WF_vars(ChunkExpire(j))
          /\ WF_vars(ChunkReturn(j))
          /\ WF_vars(WatcherPoll(j))
          /\ WF_vars(WatcherSleep(j))
          /\ WF_vars(WatcherDelete(j))
          /\ WF_vars(WatcherReturn(j))

(* The completion barrier with worker crashes: the pipeline, and worker
   processes that die while running a job. *)
NextBarrier ==
    \/ NextPipeline
    \/ \E j \in 1..Len(jobs) : WorkerCrash(j)

SpecBarrier == Init /\ [][NextBarrier]_vars

----------------------------------------------------------------------------
(* launch_workers.py: the loop of the supervisor *)

WorkerIds(ws) == {ws[i].id : i \in 1..Len(ws)}

(* The addresses a new Process object can get: those of no object that is
   still referenced. *)
FreeAddresses(m) ==
    Addresses \ (WorkerIds(m.workers) \cup {m.worker, m.new_worker}
                 \cup m.children)

AliveIds(ws) == {ws[i].id : i \in {n \in 1..Len(ws) : ws[n].alive}}

(* start_workers, lines 52-57, for worker_count = n. *)
StartWorkers(n) ==
    /\ manager.pc = "init"
    /\ \E ids \in [1..n -> Addresses] :
          /\ \A i, j \in 1..n : i # j => ids[i] # ids[j]
          /\ manager' = [manager EXCEPT
                 !.workers = [i \in 1..n |-> NewProcess(ids[i], i, i)],
                 !.children = {ids[i] : i \in 1..n},
                 !.worker_count = n,
                 !.pc = "scan"]
    /\ UNCHANGED <<jobVars, docVars, slots, killed, apiVars>>

Supervising == manager.pc \in {"scan", "restart", "sleep"}

(* A worker process dies (worker.is_alive() becomes False, line 77). *)
WorkerDies(i) ==
    /\ Supervising
    /\ i \in 1..Len(manager.workers)
    /\ manager.workers[i].alive
    /\ slots[manager.workers[i].slot].crashes < MaxSlotCrashes
    /\ manager' = [manager EXCEPT
           !.workers[i].alive = FALSE,
           !.workers[i].busy = FALSE,
           !.workers[i].k = slots[manager.workers[i].slot].crashes,
           !.workers[i].since = 0]
    /\ slots' = [slots EXCEPT ![manager.workers[i].slot].crashes = @ + 1]
    /\ UNCHANGED <<jobVars, docVars, killed, apiVars>>

(* self.workers.remove(worker) *)
remove(ws, id) == SelectSeq(ws, LAMBDA w : w.id # id)

delay_of(restart_count) == base_restart_delay * (2 ^ restart_count)

(* run, lines 76-102: the loop over self.workers[:], from its i-th element,
   on the manager m. *)
RECURSIVE scan(_, _, _)
scan(ws, i, m) ==
    IF i > Len(ws) THEN m
    ELSE LET worker == ws[i]
             worker_id == worker.id
             restart_count == m.worker_restart_counts[worker_id]
         IN IF worker.alive
            THEN scan(ws, i + 1, [m EXCEPT !.worker = worker_id])
            ELSE IF restart_count >= max_restart_attempts
            THEN scan(ws, i + 1,
                      [m EXCEPT !.workers = remove(@, worker_id),
                                !.children = @ \ {worker_id},
                                !.worker = worker_id])
            ELSE scan(ws, i + 1,
                      [m EXCEPT
                          !.worker_restart_delays[worker_id] =
                              [pending |-> TRUE,
                               remaining |-> delay_of(restart_count),
                               slot |-> worker.slot, k |-> worker.k,
                               since |-> worker.since],
                          !.worker_restart_counts[worker_id] =
                              restart_count + 1,
                          !.workers = remove(@, worker_id),
                          !.children = @ \ {worker_id},
                          !.worker = worker_id])

(* The slots whose dead worker the scan retires (lines 83-89). *)
Retiring(m) ==
    {m.workers[i].slot : i \in {n \in 1..Len(m.workers) :
         /\ ~m.workers[n].alive
         /\ m.worker_restart_counts[m.workers[n].id] >= max_restart_attempts}}

Scan ==
    /\ manager.pc = "scan"
    /\ manager' = [scan(manager.workers, 1, manager) EXCEPT !.pc = "restart"]
    /\ slots' = [s \in Slots |->
                    IF s \in Retiring(manager)
                    THEN [slots[s] EXCEPT !.retired = @ + 1] ELSE slots[s]]
    /\ UNCHANGED <<jobVars, docVars, killed, apiVars>>

Due(m) ==
    {a \in Addresses : /\ m.worker_restart_delays[a].pending
                       /\ m.worker_restart_delays[a].remaining <= 0}

(* run, lines 104-115, for one entry of worker_restart_delays whose
   restart_time has come: start_worker_process, append, del. *)
RestartDue(worker_id, new_id) ==
    /\ manager.pc = "restart"
    /\ worker_id \in Due(manager)
    /\ new_id \in FreeAddresses(manager)
    /\ LET e == manager.worker_restart_delays[worker_id]
       IN /\ manager' = [manager EXCEPT
                 !.workers = Append(@, NewProcess(new_id, e.slot,
                                                  Len(manager.workers) + 1)),
                 !.worker_restart_delays[worker_id] = NoDelay,
                 !.new_worker = new_id,
                 !.children = AliveIds(manager.workers) \cup {new_id}]
          /\ slots' = [slots EXCEPT
                 ![e.slot].starts = @ + 1,
                 ![e.slot].latency =
                     IF e.k = 0 /\ ~@.started
                     THEN [started |-> TRUE, seconds |-> e.since] ELSE @]
    /\ UNCHANGED <<jobVars, docVars, killed, apiVars>>

(* The end of the second loop: no restart_time has come. *)
RestartDone ==
    /\ manager.pc = "restart"
    /\ Due(manager) = {}
    /\ manager' = [manager EXCEPT !.pc = "sleep"]
    /\ UNCHANGED <<jobVars, docVars, slots, killed, apiVars>>

(* dt seconds pass. *)
Elapse(m, dt) ==
    [m EXCEPT
        !.workers = [i \in 1..Len(m.workers) |->
            IF ~m.workers[i].alive
            THEN [m.workers[i] EXCEPT !.since = @ + dt]
            ELSE IF m.workers[i].busy
            THEN [m.workers[i] EXCEPT !.ran = @ + dt]
            ELSE m.workers[i]],
        !.worker_restart_delays = [a \in Addresses |->
            IF m.worker_restart_delays[a].pending
            THEN [m.worker_restart_delays[a] EXCEPT
                     !.remaining = Max(@ - dt, 0), !.since = @ + dt]
            ELSE m.worker_restart_delays[a]]]

(* The execution harness ends a job at its timeout: time passes only while
   no running job has used its timeout up. *)
NoJobOverdue ==
    \A i \in 1..Len(manager.workers) :
        (manager.workers[i].alive /\ manager.workers[i].busy)
            => manager.workers[i].ran < JobTimeout

(* run, line 117 and the loop condition of line 75. *)
Sleep ==
    /\ manager.pc = "sleep"
    /\ NoJobOverdue
    /\ manager' = [Elapse(manager, SleepInterval) EXCEPT
                      !.pc = IF manager.running THEN "scan" ELSE "finally"]
    /\ UNCHANGED <<jobVars, docVars, slots, killed, apiVars>>

(* The supervisor and crashing workers. *)
NextSupervisor ==
    \/ \E n \in CrashLoopCounts : StartWorkers(n)
    \/ \E i \in Slots : WorkerDies(i)
    \/ Scan
    \/ \E a, b \in Addresses : RestartDue(a, b)
    \/ RestartDone
    \/ Sleep

SpecSupervisor == Init /\ [][NextSupervisor]_vars

(* The same with the loop of run running on. *)
FairSpecSupervisor ==
    /\ Init
    /\ [][NextSupervisor]_vars
    /\ WF_vars(\E n \in CrashLoopCounts : StartWorkers(n))
    /\ WF_vars(Scan)
    /\ WF_vars(\E a, b \in Addresses : RestartDue(a, b))
    /\ WF_vars(RestartDone)
    /\ WF_vars(Sleep)

(* The pool of a launcher of several workers: the crashes of all slots
   together are bounded. *)
RECURSIVE SumOver(_, _)
SumOver(f, S) ==
    IF S = {} THEN 0
    ELSE LET x == CHOOSE y \in S : TRUE IN f[x] + SumOver(f, S \ {x})

PoolCrashes == SumOver([s \in Slots |-> slots[s].crashes], Slots)

NextPool ==
    \/ \E n \in PoolCounts : StartWorkers(n)
    \/ \E i \in Slots : PoolCrashes < MaxPoolCrashes /\ WorkerDies(i)
    \/ Scan
    \/ \E a, b \in Addresses : RestartDue(a, b)
    \/ RestartDone
    \/ Sleep

SpecPool == Init /\ [][NextPool]_vars

----------------------------------------------------------------------------
(* launch_workers.py: shutdown, and the workers at work *)

(* A worker that has not been told to stop takes a job from the queue. *)
WorkerTakesJob(i) ==
    /\ manager.pc # "init"
    /\ i \in 1..Len(manager.workers)
    /\ manager.workers[i].alive
    /\ ~manager.workers[i].busy
    /\ ~manager.workers[i].term
    /\ manager' = [manager EXCEPT !.workers[i].busy = TRUE,
                                  !.workers[i].ran = 0]
    /\ UNCHANGED <<jobVars, docVars, slots, killed, apiVars>>

(* The job of a worker ends: it returns, raises or reaches its timeout. A
   worker that was told to stop exits after its job. *)
WorkerEndsJob(i) ==
    /\ i \in 1..Len(manager.workers)
    /\ manager.workers[i].alive
    /\ manager.workers[i].busy
    /\ manager' = [manager EXCEPT
           !.workers[i].busy = FALSE,
           !.workers[i].ran = 0,
           !.workers[i].alive = ~manager.workers[i].term]
    /\ UNCHANGED <<jobVars, docVars, slots, killed, apiVars>>

(* An idle worker that was told to stop exits. *)
WorkerExits(i) ==
    /\ i \in 1..Len(manager.workers)
    /\ manager.workers[i].alive
    /\ manager.workers[i].term
    /\ ~manager.workers[i].busy
    /\ manager' = [manager EXCEPT !.workers[i].alive = FALSE]
    /\ UNCHANGED <<jobVars, docVars, slots, killed, apiVars>>

(* _signal_handler, lines 35-38: SIGTERM or SIGINT reaches the supervisor,
   which enters stop_workers. *)
Signal ==
    /\ Supervising
    /\ manager.running
    /\ manager' = [manager EXCEPT !.running = FALSE, !.pc = "stop",
                                  !.stop_i = 1, !.in_finally = FALSE]
    /\ UNCHANGED <<jobVars, docVars, slots, killed, apiVars>>

(* stop_workers, lines 62-64: the next worker of self.workers; terminate()
   for one that is alive. After the last one the handler's sys.exit(0)
   (line 39) unwinds run, whose finally clause (lines 121-122) calls
   stop_workers once more, and the supervisor exits. *)
StopWorkers ==
    /\ manager.pc = "stop"
    /\ LET i == manager.stop_i
       IN manager' =
            IF i > Len(manager.workers)
            THEN IF manager.in_finally
                 THEN [manager EXCEPT !.pc = "exited"]
                 ELSE [manager EXCEPT !.stop_i = 1, !.in_finally = TRUE]
            ELSE IF ~manager.workers[i].alive
            THEN [manager EXCEPT !.stop_i = i + 1]
            ELSE [manager EXCEPT !.workers[i].term = TRUE, !.pc = "join",
                                 !.joined = 0]
    /\ UNCHANGED <<jobVars, docVars, slots, killed, apiVars>>

(* stop_workers, lines 65-67: join(timeout=5) returns when the worker has
   exited or after 5 seconds; a worker still alive then is killed. *)
Join ==
    /\ manager.pc = "join"
    /\ LET i == manager.stop_i
           w == manager.workers[i]
       IN IF ~w.alive
          THEN /\ manager' = [manager EXCEPT !.pc = "stop", !.stop_i = i + 1]
               /\ UNCHANGED killed
          ELSE IF manager.joined < JoinTimeout
          THEN /\ NoJobOverdue
               /\ manager' = [Elapse(manager, 1) EXCEPT !.joined = @ + 1]
               /\ UNCHANGED killed
          ELSE /\ manager' = [manager EXCEPT
                      !.workers[i].alive = FALSE,
                      !.workers[i].busy = FALSE,
                      !.pc = "stop", !.stop_i = i + 1]
               /\ killed' = IF w.busy
                            THEN killed \cup {[slot |-> w.slot, ran |-> w.ran,
                                               timeout |-> JobTimeout]}
                            ELSE killed
    /\ UNCHANGED <<jobVars, docVars, slots, apiVars>>

(* The supervisor, its workers at work and a termination signal. *)
NextShutdown ==
    \/ \E n \in WorkerCounts : StartWorkers(n)
    \/ Scan
    \/ RestartDone
    \/ Sleep
    \/ \E i \in Slots : WorkerTakesJob(i)
    \/ \E i \in Slots : WorkerEndsJob(i)
    \/ \E i \in Slots : WorkerExits(i)
    \/ Signal
    \/ StopWorkers
    \/ Join

SpecShutdown == Init /\ [][NextShutdown]_vars

(* run, lines 108-111, with the termination signal delivered after
   start_worker_process has started the replacement (process.start(), line
   49) and before self.workers.append(new_worker): the handler runs between
   two bytecodes of run, with the new process in no list of the manager,
   and enters stop_workers. *)
RestartInterrupted(worker_id, new_id) ==
    /\ manager.pc = "restart"
    /\ manager.running
    /\ worker_id \in Due(manager)
    /\ new_id \in FreeAddresses(manager)
    /\ LET e == manager.worker_restart_delays[worker_id]
       IN /\ manager' = [manager EXCEPT
                 !.unlisted = @ \cup {NewProcess(new_id, e.slot,
                                                 Len(manager.workers) + 1)},
                 !.children = AliveIds(manager.workers) \cup {new_id},
                 !.running = FALSE, !.pc = "stop", !.stop_i = 1,
                 !.in_finally = FALSE]
          /\ slots' = [slots EXCEPT ![e.slot].starts = @ + 1]
    /\ UNCHANGED <<jobVars, docVars, killed, apiVars>>

(* The supervisor of one worker that crashes, with a termination signal at
   any point of the loop. *)
NextOrphan ==
    \/ \E n \in CrashLoopCounts : StartWorkers(n)
    \/ \E i \in Slots : PoolCrashes < MaxPoolCrashes /\ WorkerDies(i)
    \/ Scan
    \/ \E a, b \in Addresses : RestartDue(a, b)
    \/ \E a, b \in Addresses : RestartInterrupted(a, b)
    \/ RestartDone
    \/ Sleep
    \/ \E i \in Slots : WorkerExits(i)
    \/ Signal
    \/ StopWorkers
    \/ Join

SpecOrphan == Init /\ [][NextOrphan]_vars

----------------------------------------------------------------------------
(* Claims about the retry handler *)

JobIds == 1..Len(jobs)

(* The retryable category the specification names: document-processing,
   vectorization and storage failures of app/mq/exceptions.py. *)
RetryableCategory ==
    {"mq_DocumentProcessingError", "mq_VectorizationError", "mq_DatabaseError"}

Children(j) == {k \in JobIds : jobs[k].retry_of = j}

FailedRetryable(j) ==
    jobs[j].status = "failed" /\ jobs[j].exc_info \in RetryableCategory

RECURSIVE Reenqueues(_)
Reenqueues(j) ==
    IF jobs[j].retry_of = NoJob THEN 0 ELSE 1 + Reenqueues(jobs[j].retry_of)

(* C1: a logical job is re-enqueued at most REDIS_MAX_RETRY times in total:
   no job is the end of a chain of more than max_retries re-enqueues. *)
C1_BoundedRetry ==
    \A j \in JobIds : Reenqueues(j) <= REDIS_MAX_RETRY

(* C2: a job with meta.retry_count = r < 3 that failed with a retryable error
   has been re-enqueued as a new job with meta.retry_count = r + 1 and the
   delay schedule[r]. *)
C2_IncrementAndDelay ==
    \A j \in JobIds :
        (FailedRetryable(j) /\ jobs[j].meta.retry_count < 3) =>
            /\ Children(j) # {}
            /\ \A k \in Children(j) :
                   /\ k # j
                   /\ jobs[k].meta.retry_count = jobs[j].meta.retry_count + 1
                   /\ jobs[k].delay =
                          REDIS_RETRY_INTERVALS[jobs[j].meta.retry_count + 1]

(* C3: a job with meta.retry_count >= max_retries that failed with a retryable
   error was not re-enqueued and the handler returned False. *)
C3_DeadLetter ==
    \A j \in JobIds :
        (FailedRetryable(j) /\ jobs[j].meta.retry_count >= REDIS_MAX_RETRY) =>
            (Children(j) = {} /\ jobs[j].handler_ret = "False")

(* C5: when a job fails with an exception type outside the retryable
   category, that step creates no job and leaves every queue and scheduled
   registry unchanged, whatever the job's retry_count; afterwards the failed
   job's record never changes and no job is ever a retry of it. *)
C5_AllowList ==
    [][\A j \in JobIds :
          /\ (/\ jobs[j].status = "started"
              /\ jobs'[j].status = "failed"
              /\ jobs'[j].exc_info \notin RetryableCategory)
                 => /\ Len(jobs') = Len(jobs)
                    /\ queue' = queue
                    /\ scheduled' = scheduled
                    /\ jobs'[j].handler_ret = "None"
          /\ (/\ jobs[j].status = "failed"
              /\ jobs[j].exc_info \notin RetryableCategory)
                 => /\ jobs'[j] = jobs[j]
                    /\ \A k \in 1..Len(jobs') : jobs'[k].retry_of # j]_vars

(* A job that was already retried (retry_count > 0) failed with an exception
   outside the category and the handler returned without a verdict. *)
C5_Witness ==
    \E j \in JobIds :
        /\ jobs[j].status = "failed"
        /\ jobs[j].exc_info \in {"ValueError", "core_DatabaseError"}
        /\ jobs[j].meta.retry_count > 0
        /\ jobs[j].handler_ret = "None"

(* C6: a re-enqueued job carries the failed job's callable, args, kwargs and
   timeout, its meta keeps the failed job's queue_name and allow_retry, and
   it is placed on the queue the failed job's meta.queue_name names. *)
C6_RetryPreservesJob ==
    \A k \in JobIds :
        jobs[k].retry_of # NoJob =>
            LET j == jobs[k].retry_of
            IN /\ jobs[k].func = jobs[j].func
               /\ jobs[k].args = jobs[j].args
               /\ jobs[k].kwargs = jobs[j].kwargs
               /\ jobs[k].timeout = jobs[j].timeout
               /\ jobs[k].meta.queue_name = jobs[j].meta.queue_name
               /\ jobs[k].meta.allow_retry = jobs[j].meta.allow_retry
               /\ jobs[k].origin = jobs[j].meta.queue_name

----------------------------------------------------------------------------
(* Claims about the ingestion pipeline and the completion barrier *)

(* The error types document_service raises from its jobs (its imports,
   lines 28-32). *)
PipelineErrors ==
    {"core_DocumentProcessingError", "core_VectorizationError",
     "core_DatabaseError"}

(* C4: a chunk or watcher job that failed with one of the three error types
   of the pipeline while its retry budget remained has been re-enqueued. *)
C4_PipelineErrorsRetried ==
    \A j \in JobIds :
        (/\ jobs[j].status = "failed"
         /\ jobs[j].exc_info \in PipelineErrors
         /\ jobs[j].meta.retry_count < REDIS_MAX_RETRY)
            => Children(j) # {}

Watchers(d) ==
    {j \in JobIds : jobs[j].func = "check_document_completion"
                    /\ jobs[j].args[1] = d}

ChunkJobs(d, i) ==
    {j \in JobIds : jobs[j].func = "process_chunk"
                    /\ jobs[j].args[2] = d /\ jobs[j].args[3] = i}

ChunkIndexes(d) == 0..(docs[d].total_chunks - 1)

(* The watcher terminated and returned the document id. *)
FullyProcessed(d) == \E j \in Watchers(d) : jobs[j].status = "finished"

(* C7: if the watcher of a document has terminated and reported it fully
   processed, every chunk of the document is stored. *)
C7_NoPrematureCompletion ==
    \A d \in Docs :
        FullyProcessed(d) => \A i \in ChunkIndexes(d) : rows[d][i] >= 1

AllChunkJobsSucceeded(d) ==
    /\ docs[d].present
    /\ docs[d].total_chunks >= 1
    /\ \A i \in ChunkIndexes(d) :
           \E j \in ChunkJobs(d, i) : jobs[j].status = "finished"

(* C8: under fair scheduling, once every chunk job of a document has
   completed successfully, the watcher eventually terminates and reports the
   document fully processed. *)
C8_BarrierLiveness ==
    \A d \in Docs : AllChunkJobsSucceeded(d) ~> FullyProcessed(d)

(* C9: no chunk is counted twice, an existing counter never decreases, never
   exceeds total_chunk_count and equals the number of distinct chunks whose
   job has counted itself. *)
C9_CounterInvariant ==
    /\ [](\A d \in Docs :
            /\ \A i \in 0..(MaxChunks - 1) : incrs[d][i] <= 1
            /\ counter[d].exists =>
                  /\ counter[d].val <= docs[d].total_chunks
                  /\ counter[d].val =
                        Cardinality({i \in ChunkIndexes(d) : incrs[d][i] >= 1}))
    /\ [][\A d \in Docs :
            (counter[d].exists /\ counter'[d].exists)
                => counter'[d].val >= counter[d].val]_vars

(* C10: the counter of a document is deleted at most once, and whenever the
   key disappears it is the watcher's DEL, issued when the counter had
   reached total_chunk_count. *)
C10_DeletedOnlyByWatcher ==
    /\ [](\A d \in Docs : deletes[d] <= 1)
    /\ [][\A d \in Docs :
            (counter[d].exists /\ ~counter'[d].exists) =>
                /\ counter[d].val >= docs[d].total_chunks
                /\ \E j \in Watchers(d) :
                      jobs[j].pc = "delete" /\ jobs'[j].pc = "return"]_vars

(* What the callable of a job raises where worker crashes are followed: an
   error the handler retries and two it does not. *)
CrashExcTypes == {"mq_DatabaseError", "core_DatabaseError", "ValueError"}

(* The queue the workers listen on, with worker processes that die while
   running a job. *)
NextCrash ==
    \/ \E q \in REDIS_QUEUE, t \in TimeoutInputs, a \in BOOLEAN :
           EnqueueTask("task", <<"a">>, q, t, a, [k |-> "v"])
    \/ \E q \in QueueNames : Dequeue(q)
    \/ \E j \in 1..Len(jobs) : ScheduleDue(j)
    \/ \E j \in 1..Len(jobs) : JobReturns(j)
    \/ \E j \in 1..Len(jobs), e \in CrashExcTypes : JobRaises(j, e)
    \/ \E j \in 1..Len(jobs) : WorkerCrash(j)

SpecCrash == Init /\ [][NextCrash]_vars

(* C11: under fair scheduling, a watcher that crashed (its job failed) for a
   document whose chunk jobs all completed is retried and the document is
   eventually reported fully processed. *)
C11_WatcherRestart ==
    \A d \in Docs :
        (/\ AllChunkJobsSucceeded(d)
         /\ \E j \in Watchers(d) : jobs[j].status = "failed")
            ~> FullyProcessed(d)

----------------------------------------------------------------------------
(* Claims about the worker supervisor *)

(* C12: the supervisor never starts a 6th replacement for a slot: the
   replacements started for a slot number at most max_restart_attempts. *)
C12_SlotRetired ==
    \A s \in Slots : slots[s].starts <= max_restart_attempts

(* The entries of worker_restart_delays a step of the loop has written. *)
Written(a) ==
    /\ manager'.worker_restart_delays[a].pending
    /\ manager'.worker_restart_delays[a] # manager.worker_restart_delays[a]
    /\ manager.pc = "scan"

(* C13: the replacement for the k-th consecutive crash of a slot (k = 0, 1,
   2, ...) is scheduled base_delay * 2^k seconds ahead and is not started
   before that time has passed. *)
C13_RestartBackoff ==
    [][\A a \in Addresses :
          /\ Written(a) =>
                manager'.worker_restart_delays[a].remaining =
                    base_restart_delay
                        * (2 ^ manager'.worker_restart_delays[a].k)
          /\ (/\ manager.worker_restart_delays[a].pending
              /\ ~manager'.worker_restart_delays[a].pending) =>
                manager.worker_restart_delays[a].since >=
                    base_restart_delay
                        * (2 ^ manager.worker_restart_delays[a].k)]_vars

(* Job j is in the queue it belongs to. *)
InQueue(j) ==
    \E n \in 1..Len(queue[jobs[j].origin]) : queue[jobs[j].origin][n] = j

(* C14: a job is never lost: every job is queued (and then in its queue),
   scheduled (and then in the registry), running, completed or failed, and
   the job a crashing worker was running is back in its queue. *)
C14_NoSilentLoss ==
    /\ [](\A j \in JobIds :
            /\ jobs[j].status \in
                   {"queued", "scheduled", "started", "finished", "failed"}
            /\ jobs[j].status = "queued" <=> InQueue(j)
            /\ jobs[j].status = "scheduled"
                   <=> j \in scheduled[jobs[j].origin])
    /\ [][\A j \in JobIds :
            (/\ crashes' = crashes + 1
             /\ jobs[j].status = "started"
             /\ jobs'[j] # jobs[j])
                => /\ jobs'[j].status = "queued"
                   /\ \E n \in 1..Len(queue'[jobs[j].origin]) :
                          queue'[jobs[j].origin][n] = j]_vars

(* A worker died while it ran the only job there is, and the job is queued
   again. *)
C14_Witness ==
    /\ crashes >= 1
    /\ Len(jobs) = 1
    /\ jobs[1].status = "queued"
    /\ InQueue(1)

(* C15: the replacement for the first crash of a slot is started, and no
   later than base_delay seconds after the crash. *)
C15_RestartWithinBaseDelay ==
    /\ [](\A s \in Slots :
            slots[s].latency.started
                => slots[s].latency.seconds <= base_restart_delay)
    /\ \A s \in Slots :
          (slots[s].crashes = 1 /\ slots[s].starts = 0)
              ~> (slots[s].starts >= 1)

(* C16: once the supervisor, on a termination signal, has begun to stop its
   workers, no worker takes a new job, and no job in flight is killed before
   it has run for its timeout: the processes that remain are terminated by
   force only after that. *)
C16_GracefulShutdown ==
    /\ [](\A x \in killed : x.ran >= x.timeout)
    /\ [][\A i \in 1..Len(manager.workers) :
            (/\ ~manager.running
             /\ manager.pc = "join"
             /\ Len(manager'.workers) = Len(manager.workers)
             /\ ~manager.workers[i].busy)
                => ~manager'.workers[i].busy]_vars

----------------------------------------------------------------------------
(* Claims about enqueue_task and get_job_status *)

(* The requested timeout when it is a valid positive integer, the
   process-wide default otherwise. *)
requested_or_default(task_timeout) ==
    IF task_timeout.type = "int"
    THEN IF task_timeout.val > 0 THEN task_timeout.val ELSE REDIS_TIMEOUT
    ELSE REDIS_TIMEOUT

(* C17: the timeout stored on a job enqueue_task created equals
   min(requested_or_default, 1800) and never exceeds 1800. *)
C17_EffectiveTimeout ==
    \A r \in requests :
        /\ jobs[r.job].timeout = Min(requested_or_default(r.task_timeout), 1800)
        /\ jobs[r.job].timeout <= 1800

IsPositiveInt(task_timeout) ==
    IF task_timeout.type = "int" THEN task_timeout.val > 0 ELSE FALSE

(* C18: a job enqueued with a timeout that is not a positive integer (None,
   0, a negative integer, a non-integer) stores the default timeout, and
   every stored timeout is positive. *)
C18_DefaultSubstituted ==
    \A r \in requests :
        /\ ~IsPositiveInt(r.task_timeout)
               => jobs[r.job].timeout = REDIS_TIMEOUT
        /\ jobs[r.job].timeout > 0

KnownStatuses == {"queued", "running", "completed", "failed"}

(* C19: a call of get_job_status with an id the store holds no job under
   fails with NotFoundError, an outcome no known job gives: none of the
   statuses of a known job. *)
C19_UnknownIdNotFound ==
    (reply.outcome # "none" /\ ~Known(reply.job_id))
        => /\ reply.outcome = "NotFoundError"
           /\ reply.status \notin KnownStatuses

(* The status of the lifecycle state of a job. *)
Lifecycle(job) ==
    CASE job.status \in {"queued", "scheduled"} -> "queued"
      [] job.status = "started" -> "running"
      [] job.status = "finished" -> "completed"
      [] job.status = "failed" -> "failed"

(* C20: get_job_status on a known job reports its lifecycle state: queued
   before a worker has taken it, running while a worker executes it,
   completed with its result, failed with its error. *)
C20_StatusIsLifecycle ==
    [][(reply' # reply /\ Known(reply'.job_id)) =>
          LET job == jobs[reply'.job_id]
          IN /\ reply'.status = Lifecycle(job)
             /\ job.status = "finished" => reply'.result = ResultOf(job)
             /\ job.status = "failed" => reply'.error = job.exc_info]_vars

----------------------------------------------------------------------------
(* Clients that poll get_job_status while the default queue works: jobs are
   enqueued, run, fail and are retried between the calls. *)
NextRead ==
    \/ \E q \in REDIS_QUEUE, t \in TimeoutInputs :
           EnqueueTask("task", <<"a">>, q, t, TRUE, [k |-> "v"])
    \/ \E q \in REDIS_QUEUE : Dequeue(q)
    \/ \E j \in 1..Len(jobs) : ScheduleDue(j)
    \/ \E j \in 1..Len(jobs) : JobReturns(j)
    \/ \E j \in 1..Len(jobs), e \in CrashExcTypes : JobRaises(j, e)
    \/ \E job_id \in JobIdInputs : GetJobStatus(job_id)

SpecRead == Init /\ [][NextRead]_vars

(* C21: get_job_status is a pure read and idempotent on completed jobs: a
   call changes neither the job records, the queues, the registries nor any
   chunk counter; the record of a finished job never changes; and every
   call for a finished job answers "completed" with the job's result, so
   any number of calls give the same status and result. *)
C21_PureIdempotentRead ==
    [][/\ (reply' # reply) => UNCHANGED <<jobVars, docVars>>
       /\ \A j \in 1..Len(jobs) :
              jobs[j].status = "finished"
                  => /\ jobs'[j] = jobs[j]
                     /\ (reply' # reply /\ reply'.job_id = j)
                            => /\ reply'.outcome = "returned"
                               /\ reply'.status = "completed"
                               /\ reply'.result = ResultOf(jobs[j])
                               /\ reply'.error = ""]_vars

(* A call for a finished job was answered "completed". *)
C21_Witness ==
    /\ reply.outcome = "returned"
    /\ Known(reply.job_id)
    /\ jobs[reply.job_id].status = "finished"
    /\ reply.status = "completed"

(* C23: every Job enqueue_task creates is put at the end of the queue named
   by the queue_name argument, and of no other queue, and its meta is and
   stays retry_count 0, the queue_name argument and the allow_retry
   argument. *)
C23_MetaPersisted ==
    [][/\ \A r \in requests' :
              /\ jobs'[r.job].meta = [retry_count |-> 0,
                                      queue_name |-> r.queue_name,
                                      allow_retry |-> r.allow_retry]
              /\ jobs'[r.job].origin = r.queue_name
       /\ \A r \in requests' \ requests :
              /\ jobs'[r.job].status = "queued"
              /\ Len(queue'[r.queue_name]) > 0
              /\ queue'[r.queue_name][Len(queue'[r.queue_name])] = r.job
              /\ \A q \in QueueNames \ {r.queue_name} :
                     \A n \in 1..Len(queue'[q]) : queue'[q][n] # r.job]_vars

(* A job was enqueued on a queue that is not the default one, with retries
   switched off and an explicit timeout. *)
C23_Witness ==
    \E r \in requests :
        /\ r.queue_name = "other"
        /\ r.allow_retry = FALSE
        /\ r.task_timeout = PyInt(60)
        /\ queue["other"] = <<r.job>>
        /\ jobs[r.job].meta.queue_name = "other"
        /\ jobs[r.job].meta.allow_retry = FALSE

(* The ids of the jobs of document d, in the order of their creation. *)
JobsOf(d) ==
    {j \in JobIds : \/ j \in Watchers(d)
                    \/ \E i \in 0..(MaxChunks - 1) : j \in ChunkJobs(d, i)}

(* C24: a process_file call that returned document id d for a text of n
   chunks has appended to the default queue, in this order, one
   process_chunk job for each index 0..n-1 carrying d and then one
   check_document_completion job with total_chunks = n: n + 1 jobs, none
   on another queue, every chunk job created before the watcher. *)
C24_ChunksThenWatcher ==
    [][\A d \in Docs :
          (call' # call /\ call'.fn = "process_file" /\ call'.raised = ""
           /\ call'.ret = d)
              => LET n == call'.chunks
                     first == Len(jobs)
                 IN /\ docs'[d] = [present |-> TRUE, total_chunks |-> n]
                    /\ Len(jobs') = first + n + 1
                    /\ \A i \in 0..(n - 1) :
                           /\ jobs'[first + i + 1].func = "process_chunk"
                           /\ jobs'[first + i + 1].args[2] = d
                           /\ jobs'[first + i + 1].args[3] = i
                    /\ jobs'[first + n + 1].func = "check_document_completion"
                    /\ jobs'[first + n + 1].args = <<d, n>>
                    /\ \A k \in 1..(n + 1) :
                           /\ jobs'[first + k].origin = "qa-chatbot"
                           /\ jobs'[first + k].status = "queued"
                    /\ queue'["qa-chatbot"] = queue["qa-chatbot"]
                           \o [k \in 1..(n + 1) |-> first + k]
                    /\ \A q \in QueueNames \ {"qa-chatbot"} :
                           queue'[q] = queue[q]]_vars

(* process_file returned for a document of MaxChunks chunks. *)
C24_Witness ==
    /\ call.fn = "process_file"
    /\ call.raised = ""
    /\ call.chunks = MaxChunks
    /\ docs[call.ret].present
    /\ Cardinality(JobsOf(call.ret)) = MaxChunks + 1

(* C25: a process_file call that raises because the content type is not
   PDF, the size is above MAX_FILE_SIZE_BYTES or the text cannot be
   extracted has created no job, enqueued nothing and written no document
   row: job records, queues, registries, documents and vector store are as
   before the call. *)
C25_RejectedLeavesNoTrace ==
    [][(call' # call /\ call'.fn = "process_file" /\ call'.raised # "")
          => /\ UNCHANGED <<jobs, queue, scheduled, calls, requests>>
             /\ UNCHANGED <<docs, rows, counter>>
             /\ call'.raised \in {"ValueError",
                                   "core_DocumentProcessingError"}
             /\ (call'.content_type # "application/pdf"
                 \/ call'.file_size > MAX_FILE_SIZE_BYTES)
                    => call'.raised = "ValueError"]_vars

(* An upload one byte above the ceiling was rejected while the jobs of an
   earlier document were in the queue. *)
C25_Witness ==
    /\ call.fn = "process_file"
    /\ call.raised = "ValueError"
    /\ call.content_type = "application/pdf"
    /\ call.file_size = MAX_FILE_SIZE_BYTES + 1
    /\ \E d \in Docs : docs[d].present /\ Watchers(d) # {}

----------------------------------------------------------------------------
(* Functions without state: DocumentService.chunk_text
   (app/services/document_service.py, lines 66-79) and the chat message
   endpoint (app/api/endpoints/chat.py, app/models/chat.py). *)

MaxTextLen == 3
MaxChunkSize == 3
MaxMargin == 3

(* The texts chunk_text is called on: every string of at most MaxTextLen
   characters over two letters. *)
Alphabet == {"a", "b"}
Texts == UNION {[1..n -> Alphabet] : n \in 0..MaxTextLen}

(* Python's text[start:end]: an index below zero counts from the end of
   the text, every index is clipped to 0..len(text), and the slice is the
   characters at the positions start..end-1 (a sequence counts from 1). *)
clip(len, i) == IF i < 0 THEN Max(len + i, 0) ELSE Min(i, len)

slice(text, start, end) ==
    LET lo == clip(Len(text), start)
        hi == clip(Len(text), end)
    IN IF lo < hi THEN SubSeq(text, lo + 1, hi) ELSE <<>>

(* A call of chunk_text at its first statement (lines 72-73). overlap runs
   below, up to and above chunk_size: the signature accepts every pair of
   integers. *)
ChunkTextCalls ==
    {[fn |-> "chunk_text", text |-> t, chunk_size |-> c, overlap |-> o,
      start |-> 0, chunks |-> <<>>, pc |-> "while"] :
        t \in Texts, c \in 1..MaxChunkSize, o \in 0..MaxChunkSize}

(* chunk_text that moves its start forward by at least one character. *)
ChunkTextLoopAdvances ==
    /\ call.fn = "chunk_text"
    /\ call.pc = "while"
    /\ call.start < Len(call.text)
    /\ Len(call.chunks) <= MaxTextLen
    /\ LET end == call.start + call.chunk_size
       IN call' = [call EXCEPT
                      !.chunks = Append(@, slice(call.text, call.start, end)),
                      !.start = Max(end - call.overlap, call.start + 1)]
    /\ UNCHANGED <<jobVars, docVars, supVars, reply, requests, auxVars>>

(* chunk_text whose next window starts where the last one ended. *)
ChunkTextLoopNoOverlap ==
    /\ call.fn = "chunk_text"
    /\ call.pc = "while"
    /\ call.start < Len(call.text)
    /\ Len(call.chunks) <= MaxTextLen
    /\ call' = [call EXCEPT
                   !.chunks = Append(@, slice(call.text, call.start,
                                              call.start + call.chunk_size)),
                   !.start = call.start + call.chunk_size]
    /\ UNCHANGED <<jobVars, docVars, supVars, reply, requests, auxVars>>

(* lines 74-78: one iteration of the loop. The list of a call that makes no
   progress is followed up to MaxTextLen + 1 windows. *)
ChunkTextLoop ==
    /\ call.fn = "chunk_text"
    /\ call.pc = "while"
    /\ call.start < Len(call.text)
    /\ Len(call.chunks) <= MaxTextLen
    /\ LET end == call.start + call.chunk_size
       IN call' = [call EXCEPT
                      !.chunks = Append(@, slice(call.text, call.start, end)),
                      !.start = end - call.overlap]
    /\ UNCHANGED <<jobVars, docVars, supVars, reply, requests, auxVars>>

(* lines 74 and 79: the loop ends and the list is returned. *)
ChunkTextReturn ==
    /\ call.fn = "chunk_text"
    /\ call.pc = "while"
    /\ ~(call.start < Len(call.text))
    /\ call' = [call EXCEPT !.pc = "done"]
    /\ UNCHANGED <<jobVars, docVars, supVars, reply, requests, auxVars>>

(* app/models/chat.py, line 19: Field(..., min_length=1, max_length=1000). *)
min_length == 1
max_length == 1000

(* The bodies posted to the endpoint: one without a message, and messages
   of one repeated letter whose lengths lie around both limits. *)
MessageLengths ==
    (0..MaxMargin) \cup ((max_length - MaxMargin)..(max_length + MaxMargin))

Bodies ==
    {[has_message |-> FALSE, message |-> <<>>]}
        \cup {[has_message |-> TRUE, message |-> [i \in 1..n |-> c]] :
                 n \in MessageLengths, c \in {"x", "E"}}

SendMessageCalls ==
    {[fn |-> "send_message", body |-> b, pc |-> "request", status |-> 0,
      response |-> None] : b \in Bodies}

(* ChatRequest whose upper limit is exclusive. *)
ChatRequestBelowMax(body) ==
    /\ body.has_message
    /\ Len(body.message) >= min_length
    /\ Len(body.message) < max_length

(* ChatRequest (models/chat.py, lines 16-19): the body parses. *)
ChatRequest(body) ==
    /\ body.has_message
    /\ Len(body.message) >= min_length
    /\ Len(body.message) <= max_length

(* f"Echo: {request.message}" (endpoints/chat.py, line 22). *)
Echo(message) == <<"E", "c", "h", "o", ":", " ">> \o message

(* send_message (endpoints/chat.py, lines 13-42) behind the validation of
   its body: 422 without a response message, or 200 with the echo. *)
SendMessage ==
    /\ call.fn = "send_message"
    /\ call.pc = "request"
    /\ call' = IF ChatRequest(call.body)
               THEN [call EXCEPT !.pc = "done", !.status = 200,
                        !.response = [content |-> Echo(call.body.message),
                                      role |-> "assistant"]]
               ELSE [call EXCEPT !.pc = "done", !.status = 422]
    /\ UNCHANGED <<jobVars, docVars, supVars, reply, requests, auxVars>>

InitFunctions ==
    /\ jobs = <<>>
    /\ queue = [q \in QueueNames |-> <<>>]
    /\ scheduled = [q \in QueueNames |-> {}]
    /\ calls = 0
    /\ InitDocs
    /\ InitManager
    /\ reply = NoReply
    /\ requests = {}
    /\ timeouts = {}
    /\ sockets = NoSockets
    /\ call \in ChunkTextCalls \cup SendMessageCalls

NextFunctions ==
    \/ ChunkTextLoop
    \/ ChunkTextReturn
    \/ SendMessage

SpecFunctions == InitFunctions /\ [][NextFunctions]_vars

(* The same with calls that run on: a call that can take its next step
   takes it. *)
FairSpecFunctions ==
    /\ SpecFunctions
    /\ WF_vars(ChunkTextLoop)
    /\ WF_vars(ChunkTextReturn)
    /\ WF_vars(SendMessage)

----------------------------------------------------------------------------
(* The WebSocket endpoint, app/routers/chat.py. Every connection attempt is
   a coroutine of chat on its own WebSocket object; the event loop runs one
   coroutine at a time and switches at an await. conn[w].pc is the point
   the coroutine of w waits at. *)

(* app/config.py *)
WS_MAX_CONNECTIONS_PER_USER == 1

(* chat.py lines 80-81 *)
check_connection_limit(user_id) ==
    Cardinality(sockets.active_connections[user_id])
        < WS_MAX_CONNECTIONS_PER_USER

SetConn(w, pc, user_id) ==
    [sockets EXCEPT !.conn[w] = [pc |-> pc, user_id |-> user_id]]

(* chat, lines 183-207, for an attempt that passes ensure_user_access: the
   limit check, then either the close with code 1008 and the return, or the
   coroutine waits in websocket.accept(). *)
Connect(w, user_id) ==
    /\ sockets.conn[w].pc = "none"
    /\ sockets' = SetConn(w, IF check_connection_limit(user_id)
                             THEN "accepting" ELSE "rejected", user_id)
    /\ UNCHANGED <<jobVars, docVars, supVars, reply, requests, call,
                   timeouts>>

(* lines 207-216: accept returned; the registration in active_connections,
   and the coroutine waits in receive_text (line 221). *)
Accept(w) ==
    /\ sockets.conn[w].pc = "accepting"
    /\ sockets' =
          [sockets EXCEPT
              !.conn[w].pc = "open",
              !.active_connections[sockets.conn[w].user_id] = @ \cup {w}]
    /\ UNCHANGED <<jobVars, docVars, supVars, reply, requests, call,
                   timeouts>>

(* lines 208-210: accept raised; the coroutine returns. *)
AcceptFails(w) ==
    /\ sockets.conn[w].pc = "accepting"
    /\ sockets' = SetConn(w, "failed", sockets.conn[w].user_id)
    /\ UNCHANGED <<jobVars, docVars, supVars, reply, requests, call,
                   timeouts>>

(* lines 60-77, of active_connections: the discard; the entry of a user
   without connections is deleted, which the defaultdict reads as the empty
   set again. *)
cleanup_connection(w, user_id) ==
    [sockets EXCEPT !.conn[w].pc = "closed",
                    !.active_connections[user_id] = @ \ {w}]

(* lines 270-275: the receive loop ends with WebSocketDisconnect or another
   exception and the finally clause cleans up. *)
Disconnect(w) ==
    /\ sockets.conn[w].pc = "open"
    /\ sockets' = cleanup_connection(w, sockets.conn[w].user_id)
    /\ UNCHANGED <<jobVars, docVars, supVars, reply, requests, call,
                   timeouts>>

NextWebSocket ==
    \/ \E w \in Sockets, u \in Users : Connect(w, u)
    \/ \E w \in Sockets : Accept(w)
    \/ \E w \in Sockets : AcceptFails(w)
    \/ \E w \in Sockets : Disconnect(w)

SpecWebSocket == Init /\ [][NextWebSocket]_vars

(* The number of windows the text needs: the indexes i with
   i * (chunk_size - overlap) < len(text). *)
WindowCount(len, step) == Cardinality({i \in 0..len : i * step < len})

(* C26: for chunk_size > overlap >= 0 chunk_text returns, for every i with
   i * (chunk_size - overlap) < len(text) and for no other, the window
   text[i*(chunk_size-overlap) : i*(chunk_size-overlap) + chunk_size], in
   this order; every character of the text lies in a window and an empty
   text gives no window. *)
C26_ChunkWindows ==
    (call.fn = "chunk_text" /\ call.pc = "done"
     /\ call.chunk_size > call.overlap)
        => LET len == Len(call.text)
               step == call.chunk_size - call.overlap
               n == WindowCount(len, step)
               last(i) == IF i * step + call.chunk_size < len
                          THEN i * step + call.chunk_size
                          ELSE len
           IN /\ Len(call.chunks) = n
              /\ \A i \in 0..(n - 1) :
                     call.chunks[i + 1] =
                         [k \in 1..(last(i) - i * step) |->
                             call.text[i * step + k]]
              /\ \A p \in 1..len :
                     \E i \in 0..(n - 1) :
                         /\ i * step < p
                         /\ p <= i * step + Len(call.chunks[i + 1])
                         /\ call.chunks[i + 1][p - i * step] = call.text[p]
              /\ (len = 0) => (call.chunks = <<>>)

(* chunk_text returned overlapping windows the last of which is short. *)
C26_Witness ==
    /\ call.fn = "chunk_text"
    /\ call.pc = "done"
    /\ call.text = <<"a", "b", "a">>
    /\ call.chunk_size = 2
    /\ call.overlap = 1
    /\ call.chunks = << <<"a", "b">>, <<"b", "a">>, <<"a">> >>

(* content contains message: message is a run of characters of content. *)
Contains(content, message) ==
    \E off \in 0..(Len(content) - Len(message)) :
        \A k \in 1..Len(message) : content[off + k] = message[k]

(* C27: the endpoint accepts a request exactly when it has a message of 1
   to 1000 characters; a rejected request gets a validation error and no
   response message; the response to an accepted request has role
   "assistant" and a content that contains the request's message. *)
C27_ChatEcho ==
    (call.fn = "send_message" /\ call.pc = "done")
        => /\ (call.status = 200)
                  <=> /\ call.body.has_message
                      /\ Len(call.body.message) \in 1..1000
           /\ (call.status # 200)
                  => (call.status = 422 /\ call.response = None)
           /\ (call.status = 200)
                  => /\ call.response.role = "assistant"
                     /\ Contains(call.response.content, call.body.message)

(* A message of exactly 1000 characters was accepted and echoed. *)
C27_Witness ==
    /\ call.fn = "send_message"
    /\ call.pc = "done"
    /\ Len(call.body.message) = 1000
    /\ call.status = 200
    /\ Len(call.response.content) = 1006

(* C29: the watcher of a document without chunks (total_chunks = 0, the
   absent counter counting as 0) does not poll forever: unless the watcher
   job fails, it terminates and reports the document fully processed. *)
C29_ZeroChunkTerminates ==
    \A d \in Docs :
        (docs[d].present /\ docs[d].total_chunks = 0)
            ~> \/ FullyProcessed(d)
               \/ \E j \in Watchers(d) : jobs[j].status = "failed"

(* C30: a chunk counter that exists has an expiry set, also after a chunk
   job failed between its INCR and its EXPIRE; the only counter without
   an expiry is that of a chunk job which is running between the two
   commands. *)
C30_CounterHasExpiry ==
    \A d \in Docs :
        (counter[d].exists /\ ~counter[d].ttl)
            => \E j \in Started : /\ jobs[j].func = "process_chunk"
                                  /\ jobs[j].args[2] = d
                                  /\ jobs[j].pc = "expire"

(* C31: chunk_text terminates on every text if overlap < chunk_size, its
   start index growing with every iteration; on a text that is not empty
   with overlap >= chunk_size the start index never moves forward and the
   call never returns. *)
C31_ChunkTextTermination ==
    /\ (call.fn = "chunk_text" /\ call.overlap < call.chunk_size)
           ~> (call.pc = "done")
    /\ [][call.fn = "chunk_text"
             => IF call.overlap < call.chunk_size
                THEN call'.start > call.start \/ call'.pc = "done"
                ELSE call'.start <= call.start]_vars
    /\ [](( /\ call.fn = "chunk_text"
            /\ call.overlap >= call.chunk_size
            /\ call.text # <<>> )
              => (call.pc # "done" /\ call.start < Len(call.text)))

(* A call with overlap = chunk_size has appended more windows than the text
   has characters and its start index is where it began. *)
C31_Witness ==
    /\ call.fn = "chunk_text"
    /\ call.overlap = call.chunk_size
    /\ Len(call.text) = MaxTextLen
    /\ Len(call.chunks) = MaxTextLen + 1
    /\ call.start = 0
    /\ call.pc = "while"

(* C32: a job the harness ended at its timeout is failed and goes through
   the retry classification like every failure: a chunk or watcher job
   that was ended at its timeout while its retry budget remained has been
   re-enqueued. *)
C32_TimeoutRetried ==
    \A j \in timeouts :
        /\ jobs[j].status = "failed"
        /\ (/\ jobs[j].func \in {"process_chunk", "check_document_completion"}
            /\ jobs[j].meta.retry_count < REDIS_MAX_RETRY)
               => Children(j) # {}

(* C34: a job enqueued with allow_retry = False has no re-enqueued
   successor, whatever exception it failed with. *)
C34_NoRetryWhenDisallowed ==
    \A r \in requests :
        (r.job \in JobIds /\ r.allow_retry = FALSE) => Children(r.job) = {}

(* C37: process_chunk increments the chunk counter only after the insert
   into the vector store: for every chunk of every document the increments
   applied are at most the rows stored, a step increments only for a job
   that is past its insert, and a step in which a chunk job fails before or
   during its insert changes neither the increments nor the counter. *)
C37_StoreBeforeIncrement ==
    /\ [](\A d \in Docs : \A i \in 0..(MaxChunks - 1) :
              incrs[d][i] <= rows[d][i])
    /\ [][incrs' # incrs =>
              \E j \in JobIds :
                  /\ jobs[j].func = "process_chunk"
                  /\ jobs[j].pc = "incr"
                  /\ rows[jobs[j].args[2]][jobs[j].args[3]] >= 1
                  /\ incrs' = [incrs EXCEPT
                                  ![jobs[j].args[2]][jobs[j].args[3]] = @ + 1]
         ]_vars
    /\ [][\A j \in JobIds :
              ( /\ jobs[j].func = "process_chunk"
                /\ jobs[j].pc \in {"summarize", "insert"}
                /\ jobs'[j].status = "failed" )
                 => (incrs' = incrs /\ counter' = counter)]_vars

(* One chunk was stored and counted, another chunk's job failed at its
   insert (the DatabaseError is raised there only) and left no increment. *)
C37_Witness ==
    \E d \in Docs :
        /\ \E i \in ChunkIndexes(d) : rows[d][i] = 1 /\ incrs[d][i] = 1
        /\ \E j \in JobIds :
              /\ jobs[j].func = "process_chunk"
              /\ jobs[j].args[2] = d
              /\ jobs[j].status = "failed"
              /\ jobs[j].exc_info = "core_DatabaseError"
              /\ rows[d][jobs[j].args[3]] = 0
              /\ incrs[d][jobs[j].args[3]] = 0

(* C38: for every user the connections registered in
   active_connections[user_id] never number more than
   WS_MAX_CONNECTIONS_PER_USER. *)
C38_ConnectionLimit ==
    \A u \in Users :
        Cardinality(sockets.active_connections[u])
            <= WS_MAX_CONNECTIONS_PER_USER

(* C36: the worker ids that the processes alive in self.workers were
   started with are pairwise distinct. *)
C36_DistinctWorkerIds ==
    \A i, j \in 1..Len(manager.workers) :
        ( /\ i # j
          /\ manager.workers[i].alive
          /\ manager.workers[j].alive )
            => manager.workers[i].worker_id # manager.workers[j].worker_id

Pending(m) == {a \in Addresses : m.worker_restart_delays[a].pending}

Retired == SumOver([s \in Slots |-> slots[s].retired], Slots)

(* C33: while run supervises, the processes in self.workers, the pending
   entries of worker_restart_delays and the retired slots together number
   worker_count. *)
C33_PoolSize ==
    Supervising =>
        Len(manager.workers) + Cardinality(Pending(manager)) + Retired
            = manager.worker_count

Restarts == SumOver([s \in Slots |-> slots[s].starts], Slots)

(* C35: when the shutdown has finished, no worker process the supervisor
   started is alive, and no worker process is started once the signal was
   received. *)
C35_NoOrphan ==
    /\ [](manager.pc = "exited" =>
             /\ \A i \in 1..Len(manager.workers) : ~manager.workers[i].alive
             /\ \A p \in manager.unlisted : ~p.alive)
    /\ [][~manager.running => Restarts' = Restarts]_vars
====
